---- MODULE Spec2Model ----
(***************************************************************************)
(* The edit/history controller GLImage of HDRView (src/src/glimage.cpp):   *)
(* one foreground thread calling the controller, the background task of    *)
(* the outstanding edit command, the lazily uploaded GPU texture and the   *)
(* lazily recomputed histograms.                                           *)
(*                                                                         *)
(* A raster is abstracted to its content, a number: EmptyRaster is the     *)
(* 0 x 0 raster of a fresh controller, 1..NumRasters are the contents of   *)
(* non-empty rasters, all ImgHeight scanlines high.                        *)
(***************************************************************************)
EXTENDS Integers, Sequences, FiniteSets, TLC

\* ---------------------------------------------------------------- bounds
NumRasters == 2
ImgHeight == 2
MaxCmds == 2
MaxDim == 3                     \* rasters are up to MaxDim x MaxDim
MaxCoord == 5                   \* int is -MaxCoord-1 .. MaxCoord
MaxRow == 5                     \* blurred rasters are up to MaxRow x MaxRow
MaxRadius == 2                  \* leftSize, rightSize of a box blur
MaxBayer == 8                   \* mosaiced rasters are up to MaxBayer x MaxBayer
MaxPixels == 2                  \* rasters given to makeHistograms: MaxPixels x 1
MaxAHD == 5                     \* rasters arbitrated by demosaicAHD: MaxAHD x MaxAHD
MaxConv == 2                    \* convolved rasters are up to MaxConv x MaxConv
MaxTaps == 4                    \* kernels have up to MaxTaps entries
MaxXyz == 4                     \* XYZ components converted to Lab: -1/2 .. MaxXyz/2

\* ------------------------------------------------------ program constants
EmptyRaster == 0
NaNExp == -1
NoTexture == 0
DoneScanline == -1
NumBins == 256
NumNeighbors == 4
LutReserve == 65535

Files == {"a.exr"}
Commands == {"next", "bad"}
Exposures == {0, 1}

\* The raster a file decodes to when the codec succeeds.
FileRaster(f) == 1

\* An edit command is a pure function raster -> raster; "bad" throws.
Throws(cmd) == cmd = "bad"
Apply(cmd, r) == IF r = EmptyRaster THEN EmptyRaster ELSE (r % NumRasters) + 1

\* max(1, chunkSize / img->width()): scanlines per glTexSubImage2D call.
MaxLines == 1

\* float comparison exposure != m_cachedHistogramExposure; NaN differs from all.
ExposureNeq(a, b) == a = NaNExp \/ b = NaNExp \/ a # b

VARIABLES
    m_image,                    \* content of the current raster
    m_filename,
    m_history,                  \* CommandHistory: history, currentState, savedState
    m_asyncCommand,             \* <<>> (null) or <<task>>
    m_asyncRetrieved,
    m_histograms,               \* <<>> (null) or <<lazy histogram>>
    m_histogramDirty,
    m_cachedHistogramExposure,
    m_texture,                  \* LazyGLTextureLoader
    detached,                   \* running tasks whose AsyncTask object was released
    nIssued,                    \* commands issued so far
    lastOp, lastRet, lastExposure,   \* the last step and what it returned
    unconsumed,                 \* observer: ids of issued commands never installed
    consumed,                   \* observer: a result was installed since the last issue
    installs,                   \* observer: results installed since the last issue
    edit,                       \* observer: the last installed edit: rasters before, after
    last,                       \* observer: the last undo/redo call: what it returned, the
                                \* raster it started from, whether it had nothing to install
    sinceHist,                  \* observer: exposure of a computation still current
    args,                       \* a call of a raster function: its arguments
    result                      \* ... and what the call produced

vars == <<m_image, m_filename, m_history, m_asyncCommand, m_asyncRetrieved,
          m_histograms, m_histogramDirty, m_cachedHistogramExposure, m_texture,
          detached, nIssued, lastOp, lastRet, lastExposure,
          unconsumed, consumed, installs, edit, last, sinceHist,
          args, result>>

\* The controller (and its observers) as one value, so that a handler is a
\* function of it and handlers compose as the calls in the code do.
Self ==
    [image |-> m_image, filename |-> m_filename, history |-> m_history,
     task |-> m_asyncCommand, retrieved |-> m_asyncRetrieved,
     histograms |-> m_histograms, histDirty |-> m_histogramDirty,
     cachedExp |-> m_cachedHistogramExposure, tex |-> m_texture,
     detached |-> detached, unconsumed |-> unconsumed, consumed |-> consumed,
     installs |-> installs, edit |-> edit, last |-> last, sinceHist |-> sinceHist]

Commit(s) ==
    /\ m_image' = s.image
    /\ m_filename' = s.filename
    /\ m_history' = s.history
    /\ m_asyncCommand' = s.task
    /\ m_asyncRetrieved' = s.retrieved
    /\ m_histograms' = s.histograms
    /\ m_histogramDirty' = s.histDirty
    /\ m_cachedHistogramExposure' = s.cachedExp
    /\ m_texture' = s.tex
    /\ detached' = s.detached
    /\ unconsumed' = s.unconsumed
    /\ consumed' = s.consumed
    /\ installs' = s.installs
    /\ edit' = s.edit
    /\ last' = s.last
    /\ sinceHist' = s.sinceHist

NoArgs == [fn |-> "none"]
NoResult == [op |-> "none"]
NoEdit == [phase |-> 0, pre |-> EmptyRaster, post |-> EmptyRaster]
NoLast == [op |-> "none", ret |-> "void", before |-> EmptyRaster, quiet |-> TRUE]

\* ------------------------------------------------------- CommandHistory
EmptyHistory == [history |-> <<>>, currentState |-> 0, savedState |-> 0]

AddCommand(h, rec) ==
    [h EXCEPT !.history = Append(SubSeq(h.history, 1, h.currentState), rec),
              !.currentState = h.currentState + 1]

HasUndo(h) == h.currentState > 0
HasRedo(h) == h.currentState < Len(h.history)

HistoryUndo(h, img) ==
    IF ~HasUndo(h) THEN [h |-> h, image |-> img, ret |-> FALSE]
    ELSE [h |-> [h EXCEPT !.currentState = h.currentState - 1],
          image |-> h.history[h.currentState].pre, ret |-> TRUE]

HistoryRedo(h, img) ==
    IF ~HasRedo(h) THEN [h |-> h, image |-> img, ret |-> FALSE]
    ELSE [h |-> [h EXCEPT !.currentState = h.currentState + 1],
          image |-> h.history[h.currentState + 1].post, ret |-> TRUE]

MarkSaved(h) == [h EXCEPT !.savedState = h.currentState]


\* ---------------------------------------------------- LazyGLTextureLoader
BlankRows == [y \in 1..ImgHeight |-> EmptyRaster]

InitTexture ==
    [texture |-> NoTexture, dirty |-> FALSE, nextScanline |-> DoneScanline,
     rows |-> BlankRows]

SetDirty(tex) == [tex EXCEPT !.dirty = TRUE, !.nextScanline = 0]

Min(a, b) == IF a < b THEN a ELSE b

\* One glTexSubImage2D call: scanlines nextScanline .. nextScanline+numLines-1.
SubImage(tex, img) ==
    LET numLines == Min(MaxLines, ImgHeight - tex.nextScanline)
    IN  [tex EXCEPT !.rows = [y \in 1..ImgHeight |->
            IF y - 1 >= tex.nextScanline /\ y - 1 < tex.nextScanline + numLines
            THEN img ELSE tex.rows[y]]]

\* The while (true) loop; k is the number of iterations the time budget allows.
RECURSIVE ChunkLoop(_, _, _)
ChunkLoop(tex, img, k) ==
    LET t1 == SubImage(tex, img)
        t2 == [t1 EXCEPT !.nextScanline = tex.nextScanline + MaxLines]
    IN  IF t2.nextScanline >= ImgHeight
        THEN [t2 EXCEPT !.nextScanline = DoneScanline, !.dirty = FALSE]
        ELSE IF k <= 1 THEN t2 ELSE ChunkLoop(t2, img, k - 1)

TexUploadToGPU(tex, img, k) ==
    IF ~tex.dirty /\ tex.texture # NoTexture
    THEN [tex |-> tex, ret |-> FALSE]
    ELSE LET t0 == [tex EXCEPT !.texture = 1,
                               !.rows = IF tex.nextScanline = 0 THEN BlankRows ELSE @]
             t1 == ChunkLoop(t0, img, k)
         IN  [tex |-> t1, ret |-> ~t1.dirty]

\* ------------------------------------------------------------- AsyncTask
\* get(): the value the task's function returns: the new raster and the
\* reversible record of the edit.
TaskResult(t) ==
    [image |-> Apply(t.cmd, t.src),
     record |-> [pre |-> t.src, post |-> Apply(t.cmd, t.src), cmd |-> t.cmd]]

Running(s) == s.task # <<>> /\ s.task[1].st = "running"

\* Releasing the AsyncTask object of a task that is still executing: the
\* release does not block the foreground and the computation is not
\* cancelled, so the task runs on with no owner.
Release(s) ==
    [s EXCEPT !.task = <<>>,
              !.detached = IF Running(s) THEN s.detached + 1 ELSE s.detached]

\* --------------------------------------------------------------- GLImage
CanModify(s) == s.task = <<>>

GLUploadToGPU(s, k) ==
    LET r == TexUploadToGPU(s.tex, s.image, k)
        s1 == [s EXCEPT !.tex = r.tex]
    IN  IF r.ret THEN Release(s1) ELSE s1

\* Marking the histograms dirty and forgetting the texture.
MarkDirtyHistogramOnly(s) == [s EXCEPT !.histDirty = TRUE]

\* m_histogramDirty = true; m_texture.setDirty();
MarkDirty(s) == [s EXCEPT !.histDirty = TRUE, !.tex = SetDirty(s.tex)]

\* The statements of waitForAsyncResult after m_asyncCommand->get() returned.
Install(s, k) ==
    LET t == s.task[1]
        res == TaskResult(t)
        s1 == [s EXCEPT !.history = AddCommand(s.history, res.record),
                        !.image = res.image,
                        !.retrieved = TRUE,
                        !.task = <<[t EXCEPT !.st = "ready"]>>,
                        !.unconsumed = s.unconsumed \ {t.id},
                        !.consumed = TRUE,
                        !.installs = Min(s.installs + 1, 2),
                        !.edit = [phase |-> 1, pre |-> s.image, post |-> res.image],
                        !.last = NoLast,
                        !.sinceHist = <<>>]
    IN  GLUploadToGPU(MarkDirty(s1), k)

\* waitForAsyncResult that does not look at m_asyncRetrieved.
WaitIgnoringRetrieved(s, k) ==
    IF s.task = <<>>
    THEN [s |-> s, ret |-> "false"]
    ELSE IF Throws(s.task[1].cmd)
         THEN [s |-> [s EXCEPT !.task = <<[s.task[1] EXCEPT !.st = "ready"]>>],
               ret |-> "throw"]
         ELSE [s |-> Install(s, k), ret |-> "true"]

\* waitForAsyncResult that swallows the failure of the command body and
\* installs whatever the task holds.
WaitSwallowingFailure(s, k) ==
    IF s.task = <<>> \/ s.retrieved
    THEN [s |-> s, ret |-> "false"]
    ELSE [s |-> Install(s, k), ret |-> "true"]

\* get() blocks until the task has finished; a failure of the command body is
\* rethrown by get() and leaves waitForAsyncResult at that statement.
WaitForAsyncResult(s, k) ==
    IF s.task = <<>> \/ s.retrieved
    THEN [s |-> s, ret |-> "false"]
    ELSE IF Throws(s.task[1].cmd)
         THEN [s |-> [s EXCEPT !.task = <<[s.task[1] EXCEPT !.st = "ready"]>>],
               ret |-> "throw"]
         ELSE [s |-> Install(s, k), ret |-> "true"]

\* checkAsyncResult that does not ask ready() before it joins.
CheckAsyncResultNotAskingReady(s, k) ==
    IF s.task = <<>>
    THEN [s |-> s, ret |-> "false"]
    ELSE WaitForAsyncResult(s, k)

CheckAsyncResult(s, k) ==
    IF s.task = <<>> \/ s.task[1].st # "ready"
    THEN [s |-> s, ret |-> "false"]
    ELSE WaitForAsyncResult(s, k)

AsyncModify(s, cmd, id, k) ==
    LET w == WaitForAsyncResult(s, k)
    IN  IF w.ret = "throw" THEN w
        ELSE [s |-> [w.s EXCEPT
                       !.task = <<[id |-> id, cmd |-> cmd, src |-> w.s.image,
                                   st |-> "running"]>>,
                       !.retrieved = FALSE,
                       !.unconsumed = IF Throws(cmd) THEN @ ELSE @ \cup {id},
                       !.consumed = FALSE,
                       !.installs = 0,
                       !.edit = NoEdit,
                       !.last = NoLast],
              ret |-> "void"]

\* undo that marks the caches dirty whatever m_history.undo returned.
GLUndoAlwaysDirty(s, k) ==
    LET w == WaitForAsyncResult(s, k)
        u == HistoryUndo(w.s.history, w.s.image)
        r == IF u.ret THEN "true" ELSE "false"
        s1 == [MarkDirty(w.s) EXCEPT
                          !.history = u.h, !.image = u.image,
                          !.sinceHist = IF u.ret THEN <<>> ELSE @,
                          !.edit = IF @.phase = 1 THEN [@ EXCEPT !.phase = 2] ELSE NoEdit,
                          !.last = [op |-> "undo", ret |-> r, before |-> w.s.image,
                                    quiet |-> w.ret = "false"]]
    IN  IF w.ret = "throw" THEN [s |-> [w.s EXCEPT !.last = NoLast, !.edit = NoEdit],
                                 ret |-> "throw"]
        ELSE [s |-> s1, ret |-> r]

GLUndo(s, k) ==
    LET w == WaitForAsyncResult(s, k)
        u == HistoryUndo(w.s.history, w.s.image)
        r == IF u.ret THEN "true" ELSE "false"
        s0 == IF u.ret THEN MarkDirty(w.s) ELSE w.s
        s1 == [s0  EXCEPT !.history = u.h, !.image = u.image,
                          !.sinceHist = IF u.ret THEN <<>> ELSE @,
                          !.edit = IF @.phase = 1 THEN [@ EXCEPT !.phase = 2] ELSE NoEdit,
                          !.last = [op |-> "undo", ret |-> r, before |-> w.s.image,
                                    quiet |-> w.ret = "false"]]
    IN  IF w.ret = "throw" THEN [s |-> [w.s EXCEPT !.last = NoLast, !.edit = NoEdit],
                                 ret |-> "throw"]
        ELSE [s |-> s1, ret |-> r]

\* redo that replays with m_history.undo.
GLRedoCallingUndo(s, k) ==
    LET w == WaitForAsyncResult(s, k)
        u == HistoryUndo(w.s.history, w.s.image)
        r == IF u.ret THEN "true" ELSE "false"
        s0 == IF u.ret THEN MarkDirty(w.s) ELSE w.s
        s1 == [s0  EXCEPT !.history = u.h, !.image = u.image,
                          !.sinceHist = IF u.ret THEN <<>> ELSE @,
                          !.edit = NoEdit,
                          !.last = [op |-> "redo", ret |-> r, before |-> w.s.image,
                                    quiet |-> w.ret = "false"]]
    IN  IF w.ret = "throw" THEN [s |-> [w.s EXCEPT !.last = NoLast, !.edit = NoEdit],
                                 ret |-> "throw"]
        ELSE [s |-> s1, ret |-> r]

GLRedo(s, k) ==
    LET w == WaitForAsyncResult(s, k)
        u == HistoryRedo(w.s.history, w.s.image)
        r == IF u.ret THEN "true" ELSE "false"
        s0 == IF u.ret THEN MarkDirty(w.s) ELSE w.s
        s1 == [s0  EXCEPT !.history = u.h, !.image = u.image,
                          !.sinceHist = IF u.ret THEN <<>> ELSE @,
                          !.edit = NoEdit,
                          !.last = [op |-> "redo", ret |-> r, before |-> w.s.image,
                                    quiet |-> w.ret = "false"]]
    IN  IF w.ret = "throw" THEN [s |-> [w.s EXCEPT !.last = NoLast, !.edit = NoEdit],
                                 ret |-> "throw"]
        ELSE [s |-> s1, ret |-> r]

\* HDRImage::load(filename): ok is whether the codec could read the file; a
\* failed load leaves the raster as it was.
GLLoad(s, f, ok, k) ==
    LET w == WaitForAsyncResult(s, k)
        s1 == [MarkDirty(w.s) EXCEPT
                          !.history = EmptyHistory,
                          !.filename = f,
                          !.image = IF ok THEN FileRaster(f) ELSE @,
                          !.edit = NoEdit, !.last = NoLast, !.sinceHist = <<>>]
    IN  IF w.ret = "throw" THEN w
        ELSE [s |-> s1, ret |-> IF ok THEN "true" ELSE "false"]

\* HDRImage::save(...): ok is whether the codec could write the file.
GLSave(s, ok, k) ==
    LET w == WaitForAsyncResult(s, k)
        s1 == [w.s EXCEPT !.history = MarkSaved(@)]
    IN  IF w.ret = "throw" THEN w
        ELSE [s |-> s1, ret |-> IF ok THEN "true" ELSE "false"]

\* recomputeHistograms that leaves m_histogramDirty set.
RecomputeKeepingDirty(s, e, k) ==
    LET w == CheckAsyncResult(s, k)
        start == /\ \/ w.s.histograms = <<>>
                    \/ w.s.histDirty
                    \/ ExposureNeq(e, w.s.cachedExp)
                 /\ CanModify(w.s)
        s1 == [w.s EXCEPT !.histograms = <<[exposure |-> e, image |-> w.s.image]>>,
                          !.cachedExp = e,
                          !.sinceHist = <<e>>]
    IN  IF w.ret = "throw" THEN w
        ELSE IF start THEN [s |-> s1, ret |-> "started"]
        ELSE [s |-> w.s, ret |-> "skipped"]

RecomputeHistograms(s, e, k) ==
    LET w == CheckAsyncResult(s, k)
        start == /\ \/ w.s.histograms = <<>>
                    \/ w.s.histDirty
                    \/ ExposureNeq(e, w.s.cachedExp)
                 /\ CanModify(w.s)
        s1 == [w.s EXCEPT !.histograms = <<[exposure |-> e, image |-> w.s.image]>>,
                          !.histDirty = FALSE,
                          !.cachedExp = e,
                          !.sinceHist = <<e>>]
    IN  IF w.ret = "throw" THEN w
        ELSE IF start THEN [s |-> s1, ret |-> "started"]
        ELSE [s |-> w.s, ret |-> "skipped"]

GlTextureId(s, k) == [s |-> GLUploadToGPU(s, k), ret |-> "void"]

\* ------------------------------------------------------ the state machine
\* After GLImage::GLImage(): an empty raster, no filename, an empty history,
\* no task, no histograms. The constructor does not set m_asyncRetrieved.
NewGLImage ==
    /\ m_image = EmptyRaster
    /\ m_filename = ""
    /\ m_history = EmptyHistory
    /\ m_asyncCommand = <<>>
    /\ m_asyncRetrieved \in BOOLEAN
    /\ m_histograms = <<>>
    /\ m_histogramDirty = TRUE
    /\ m_cachedHistogramExposure = NaNExp
    /\ m_texture = InitTexture
    /\ detached = 0
    /\ nIssued = 0
    /\ lastOp = "new"
    /\ lastRet = "void"
    /\ lastExposure = NaNExp
    /\ unconsumed = {}
    /\ consumed = FALSE
    /\ installs = 0
    /\ edit = NoEdit
    /\ last = NoLast
    /\ sinceHist = <<>>

\* The controller's executions call no raster function themselves: commands
\* are opaque to it.
Init ==
    /\ NewGLImage
    /\ args = NoArgs
    /\ result = NoResult

\* The foreground returns from a call: r is [s, ret].
Return(op, r, e) ==
    /\ Commit(r.s)
    /\ lastOp' = op
    /\ lastRet' = r.ret
    /\ lastExposure' = e
    /\ UNCHANGED <<args, result>>

\* The number of loop iterations one upload call gets from its time budget;
\* a call that joins draws one only when there is a result to install.
Budgets == 1..((ImgHeight + MaxLines - 1) \div MaxLines)
Pending(s) == s.task # <<>> /\ ~s.retrieved
JoinBudgets(s) == IF Pending(s) THEN Budgets ELSE {1}
UploadBudgets(s) == IF ~s.tex.dirty /\ s.tex.texture # NoTexture THEN {1} ELSE Budgets

\* An upload divides by the raster's width (line 117): the controller is
\* given commands and asked for its texture only once it holds a raster.
DoAsyncModify ==
    /\ m_image # EmptyRaster
    /\ nIssued < MaxCmds
    /\ \E cmd \in Commands, k \in JoinBudgets(Self) :
          LET r == AsyncModify(Self, cmd, nIssued + 1, k)
          IN  /\ Return("asyncModify", r, NaNExp)
              /\ nIssued' = IF r.ret = "throw" THEN nIssued ELSE nIssued + 1

DoUndo ==
    /\ \E k \in JoinBudgets(Self) : Return("undo", GLUndo(Self, k), NaNExp)
    /\ UNCHANGED nIssued

DoRedo ==
    /\ \E k \in JoinBudgets(Self) : Return("redo", GLRedo(Self, k), NaNExp)
    /\ UNCHANGED nIssued

DoCheckAsyncResult ==
    /\ \E k \in JoinBudgets(Self) : Return("checkAsyncResult", CheckAsyncResult(Self, k), NaNExp)
    /\ UNCHANGED nIssued

DoWaitForAsyncResult ==
    /\ \E k \in JoinBudgets(Self) :
          Return("waitForAsyncResult", WaitForAsyncResult(Self, k), NaNExp)
    /\ UNCHANGED nIssued

DoGlTextureId ==
    /\ m_image # EmptyRaster
    /\ \E k \in UploadBudgets(Self) : Return("glTextureId", GlTextureId(Self, k), NaNExp)
    /\ UNCHANGED nIssued

DoLoad ==
    /\ \E f \in Files, ok \in BOOLEAN, k \in JoinBudgets(Self) :
          Return("load", GLLoad(Self, f, ok, k), NaNExp)
    /\ UNCHANGED nIssued

DoSave ==
    /\ \E ok \in BOOLEAN, k \in JoinBudgets(Self) : Return("save", GLSave(Self, ok, k), NaNExp)
    /\ UNCHANGED nIssued

DoRecomputeHistograms ==
    /\ \E e \in Exposures, k \in JoinBudgets(Self) :
          Return("recomputeHistograms", RecomputeHistograms(Self, e, k), e)
    /\ UNCHANGED nIssued

\* The background thread of the owned task returns from the command.
TaskDone ==
    /\ Running(Self)
    /\ Return("taskDone",
              [s |-> [Self EXCEPT !.task = <<[@[1] EXCEPT !.st = "ready"]>>],
               ret |-> "void"], NaNExp)
    /\ UNCHANGED nIssued

\* A released task returns from the command; its result is dropped.
DetachedDone ==
    /\ detached > 0
    /\ Return("detachedDone", [s |-> [Self EXCEPT !.detached = @ - 1], ret |-> "void"],
              NaNExp)
    /\ UNCHANGED nIssued

Next ==
    \/ DoAsyncModify
    \/ DoUndo
    \/ DoRedo
    \/ DoCheckAsyncResult
    \/ DoWaitForAsyncResult
    \/ DoGlTextureId
    \/ DoLoad
    \/ DoSave
    \/ DoRecomputeHistograms
    \/ TaskDone
    \/ DetachedDone

Spec == Init /\ [][Next]_vars

\* ------------------------------------------------------------ properties
Outstanding == unconsumed # {}
Executing == detached + (IF Running(Self) THEN 1 ELSE 0)
JoinOps == {"waitForAsyncResult", "undo", "redo", "load", "save", "asyncModify"}
PollOps == {"checkAsyncResult", "waitForAsyncResult"}

\* C1: while a command issued by asyncModify has not had its result consumed,
\* canModify() returns false.
C1_CanModifyFalseWhileOutstanding == Outstanding => ~CanModify(Self)

\* C2: no two edit commands execute at the same time.
C2_NoOverlappingEdits == Executing <= 1

\* C3: once a result has been consumed, checkAsyncResult and waitForAsyncResult
\* return false and change neither the raster nor the history until the next
\* asyncModify, and a command's result is installed at most once.
C3_ConsumedAtMostOnce ==
    /\ [][(consumed /\ lastOp' \in PollOps)
            => (lastRet' = "false" /\ m_image' = m_image /\ m_history' = m_history)]_vars
    /\ [](installs <= 1)

\* C3 witness: a poll after the consumption, the task object still held
\* (its upload unfinished), returned false.
C3_Witness ==
    /\ consumed /\ m_asyncCommand # <<>>
    /\ lastOp \in PollOps /\ lastRet = "false"

\* C4: when a blocking join has returned and every command issued before it
\* has completed, each of them has been installed (asyncModify leaves only the
\* command it issued itself).
C4_NoCommandLost ==
    (lastOp \in JoinOps /\ lastRet # "throw" /\ detached = 0)
        => unconsumed \subseteq (IF lastOp = "asyncModify" THEN {nIssued} ELSE {})

Opposite(op) == IF op = "undo" THEN "redo" ELSE "undo"

\* After an installed edit, undo returns true and restores the raster the
\* edit replaced, and a redo following it returns true and restores the
\* raster the edit installed.
EditRoundTrip ==
    /\ [](edit.phase = 2 => (last.op = "undo" /\ last.ret = "true" /\ m_image = edit.pre))
    /\ [][(edit.phase = 2 /\ lastOp' = "redo")
            => (lastRet' = "true" /\ m_image' = edit.post)]_vars

FlagsUnchanged ==
    /\ m_histogramDirty' = m_histogramDirty
    /\ m_texture'.dirty = m_texture.dirty

FlagsSetOnSuccess ==
    [][(lastOp' \in {"undo", "redo"} /\ lastRet' = "true")
         => (m_histogramDirty' /\ m_texture'.dirty)]_vars

\* C6 as stated: undo on an empty undo stack and redo on an empty redo stack
\* return false and leave raster, history and both dirty flags unchanged; a
\* true return leaves both dirty flags set.
C6_EmptyStackNoChange ==
    /\ [][(\/ lastOp' = "undo" /\ ~HasUndo(m_history)
           \/ lastOp' = "redo" /\ ~HasRedo(m_history))
            => (/\ lastRet' = "false"
                /\ m_image' = m_image /\ m_history' = m_history
                /\ FlagsUnchanged)]_vars
    /\ FlagsSetOnSuccess

\* C6 amended: the same, for calls made while no async result is waiting to
\* be retrieved.
C6_EmptyStackNoChangeWhenNothingPending ==
    /\ [][(/\ ~Pending(Self)
           /\ \/ lastOp' = "undo" /\ ~HasUndo(m_history)
              \/ lastOp' = "redo" /\ ~HasRedo(m_history))
            => (/\ lastRet' = "false"
                /\ m_image' = m_image /\ m_history' = m_history
                /\ FlagsUnchanged)]_vars
    /\ FlagsSetOnSuccess

\* C6 witness: redo found its stack empty, on a loaded raster with an edit in
\* the history and both caches clean.
C6_Witness ==
    /\ lastOp = "redo" /\ lastRet = "false"
    /\ HasUndo(m_history) /\ ~m_histogramDirty /\ ~m_texture.dirty

\* C7: a load or save that reports failure leaves raster, history and
\* filename as they were.
C7_FailureKeepsState ==
    [][(lastOp' \in {"load", "save"} /\ lastRet' = "false")
         => (m_image' = m_image /\ m_history' = m_history
             /\ m_filename' = m_filename)]_vars

\* The calls that join the task: checkAsyncResult too, once the task is ready.
Joins(op) ==
    \/ op \in JoinOps
    \/ op = "checkAsyncResult" /\ m_asyncCommand[1].st = "ready"

C10_CleanCacheIsCurrent ==
    /\ (~m_texture.dirty /\ m_texture.texture # NoTexture)
         => \A y \in 1..ImgHeight : m_texture.rows[y] = m_image
    /\ (~m_histogramDirty /\ m_histograms # <<>>)
         => m_histograms[1].image = m_image

\* C10 witness: both caches clean after an edit was installed and undone.
C10_Witness ==
    /\ ~m_texture.dirty /\ m_texture.texture # NoTexture
    /\ ~m_histogramDirty /\ m_histograms # <<>>
    /\ HasRedo(m_history)

\* C18: history records are appended in the order in which their commands
\* were issued: if command A was issued before command B, A's record is
\* appended before B's. Commands are numbered in issue order; once the
\* record of the latest command has been appended, no command issued before
\* it is still without its record.
C18_EarlierCommandsRecordedFirst ==
    consumed => \A a \in unconsumed : a >= nIssued

\* C19: the foreground waits for an unfinished command only inside
\* waitForAsyncResult, undo, redo, load, save and asyncModify: a call of
\* checkAsyncResult, recomputeHistograms or glTextureId made while the
\* command runs returns with the command still running, and such a call of
\* checkAsyncResult returns false and changes nothing.
Foreground(op) == op \notin {"taskDone", "detachedDone"}
TaskRunning == m_asyncCommand # <<>> /\ m_asyncCommand[1].st = "running"
StillExecuting == detached + (IF TaskRunning THEN 1 ELSE 0)
ControllerUnchanged ==
    UNCHANGED <<m_image, m_filename, m_history, m_asyncCommand, m_asyncRetrieved,
                m_histograms, m_histogramDirty, m_cachedHistogramExposure,
                m_texture, detached>>
OwnedThroughout == TaskRunning /\ (m_asyncCommand' = m_asyncCommand \/ detached' > detached)
ExecutingThroughout == detached > 0 \/ OwnedThroughout
C23_NoMutationWhileCommandExecutes ==
    [][(Foreground(lastOp') /\ ExecutingThroughout)
          => (m_image' = m_image /\ m_history' = m_history)]_vars

\* The foreground polls: from asyncModify until the controller is
\* modifiable again with nothing left to install, it calls only
\* checkAsyncResult and glTextureId, and it keeps calling them; every upload
\* call uploads at least one chunk; a command that was started returns.
Polling == Outstanding \/ ~CanModify(Self)
NextPolling ==
    \/ ~Polling /\ Next
    \/ Polling /\ (DoCheckAsyncResult \/ DoGlTextureId \/ TaskDone \/ DetachedDone)

SpecPolling ==
    /\ Init /\ [][NextPolling]_vars
    /\ WF_vars(TaskDone)
    /\ WF_vars(DetachedDone)
    /\ WF_vars(DoCheckAsyncResult)
    /\ WF_vars(DoGlTextureId)

\* C24: after asyncModify(command) with a command that terminates, under
\* polling the command's result is eventually installed as the current
\* raster and canModify() returns true again.
C24_IssuedCommandEventuallyInstalled ==
    \A id \in 1..MaxCmds :
        (id \in unconsumed) ~> (id \notin unconsumed /\ CanModify(Self))

\* ===================================================== HDRImage (hdrimage.cpp)
\* ------------------------------------------------- coordinates and borders
BorderModes == {"BLACK", "EDGE", "REPEAT", "MIRROR"}
IntMin == -MaxCoord - 1
IntMax == MaxCoord
IntRange == IntMin..IntMax
Dims == 0..MaxDim

\* The controller takes no step while a raster function is exercised.
ctl == <<m_image, m_filename, m_history, m_asyncCommand, m_asyncRetrieved,
         m_histograms, m_histogramDirty, m_cachedHistogramExposure, m_texture,
         detached, nIssued, lastOp, lastRet, lastExposure,
         unconsumed, consumed, installs, edit, last, sinceHist>>

\* C++ integer division truncates toward zero.
Quot(a, b) == IF a >= 0 THEN a \div b ELSE -((-a) \div b)

\* ::abs(int): undefined for INT_MIN, whose negation is not an int.
AbsValues(p) == IF p = IntMin THEN IntRange ELSE {IF p < 0 THEN -p ELSE p}

\* common.h clamp(a, l, h); with l > h either limit may come back.
ClampValues(a, l, h) ==
    IF l > h THEN {l, h}
    ELSE {IF a < l THEN l ELSE IF a > h THEN h ELSE a}

\* common.h mod(a, b): the remainder in [0, b); b = 0 divides by zero.
DivByZero(b) == b = 0
ModValues(a, b) == IF DivByZero(b) THEN IntRange ELSE {a % b}

\* case EDGE, and a slip of it that clamps one past the last index.
EdgeCoordPastEnd(p, maxP) == ClampValues(p, 0, maxP)
EdgeCoord(p, maxP) == ClampValues(p, 0, maxP - 1)

\* case REPEAT.
RepeatCoord(p, maxP) == ModValues(p, maxP)

\* case MIRROR: frac, reflected when abs(p) / maxP is odd.
MirrorCoord(p, maxP) ==
    IF DivByZero(maxP) THEN IntRange
    ELSE {IF Quot(a, maxP) % 2 # 0 THEN maxP - 1 - frac ELSE frac :
            a \in AbsValues(p), frac \in ModValues(p, maxP)}

\* wrapCoord(p, maxP, m): the values the call can return.
WrapCoord(p, maxP, m) ==
    IF p >= 0 /\ p < maxP THEN {p}
    ELSE CASE m = "EDGE" -> EdgeCoord(p, maxP)
           [] m = "REPEAT" -> RepeatCoord(p, maxP)
           [] m = "MIRROR" -> MirrorCoord(p, maxP)
           [] m = "BLACK" -> {-1}

\* wrapCoord traps (the integer division faults) instead of returning.
WrapTraps(p, maxP, m) ==
    ~(p >= 0 /\ p < maxP) /\ m \in {"REPEAT", "MIRROR"} /\ DivByZero(maxP)

\* What an accessor call ends with: a reference to pixel (x, y), the fixed
\* black pixel, an exception, an element outside the storage, or a fault.
PixelAt(x, y) == [kind |-> "pixel", x |-> x, y |-> y]
BlackPixel == [kind |-> "black", x |-> -1, y |-> -1]
OutOfRange == [kind |-> "throw", x |-> -1, y |-> -1]
Fault == [kind |-> "fault", x |-> -1, y |-> -1]
Element(w, h, x, y) ==
    IF x < w /\ y < h THEN PixelAt(x, y) ELSE [kind |-> "outside", x |-> x, y |-> y]

\* HDRImage::pixel, const (write = FALSE) and non-const (write = TRUE).
Pixel(w, h, x, y, mX, mY, write) ==
    (IF WrapTraps(x, w, mX) \/ WrapTraps(y, h, mY) THEN {Fault} ELSE {})
    \cup {IF rx < 0 \/ ry < 0
          THEN (IF write THEN OutOfRange ELSE BlackPixel)
          ELSE Element(w, h, rx, ry) :
            rx \in WrapCoord(x, w, mX), ry \in WrapCoord(y, h, mY)}

PixelArgs ==
    [fn : {"pixel"}, w : Dims, h : Dims, x : IntRange, y : IntRange,
     mX : BorderModes, mY : BorderModes]

InitPixel ==
    /\ NewGLImage
    /\ m_asyncRetrieved = FALSE
    /\ args \in PixelArgs
    /\ result = NoResult

\* c = img.pixel(x, y, mX, mY) on a const raster.
DoPixelRead ==
    /\ result = NoResult
    /\ \E o \in Pixel(args.w, args.h, args.x, args.y, args.mX, args.mY, FALSE) :
          result' = [op |-> "read", out |-> o, written |-> {}]
    /\ UNCHANGED <<ctl, args>>

\* img.pixel(x, y, mX, mY) = c: the store goes through the returned reference.
DoPixelWrite ==
    /\ result = NoResult
    /\ \E o \in Pixel(args.w, args.h, args.x, args.y, args.mX, args.mY, TRUE) :
          result' = [op |-> "write", out |-> o,
                     written |-> IF o.kind \in {"pixel", "outside"}
                                 THEN {<<o.x, o.y>>} ELSE {}]
    /\ UNCHANGED <<ctl, args>>

\* wrapCoord(x, width(), mX) on its own.
DoWrapCoord ==
    /\ result = NoResult
    /\ ~WrapTraps(args.x, args.w, args.mX)
    /\ \E v \in WrapCoord(args.x, args.w, args.mX) :
          result' = [op |-> "wrapCoord", out |-> v]
    /\ UNCHANGED <<ctl, args>>

NextPixel ==
    \/ DoPixelRead
    \/ DoPixelWrite
    \/ DoWrapCoord

SpecPixel == InitPixel /\ [][NextPixel]_vars

Wrapping == {"EDGE", "REPEAT", "MIRROR"}
Accessed == result.op \in {"read", "write"}
InsideRaster == result.out.kind = "pixel" /\ result.out.x \in 0..(args.w - 1)
                                           /\ result.out.y \in 0..(args.h - 1)

\* C11 as stated: on every raster, empty ones included, an accessor call
\* with one wrapping mode on both axes returns a pixel of the raster.
C11_WrappedAccessInsideAnyRaster ==
    (Accessed /\ args.mX = args.mY /\ args.mX \in Wrapping) => InsideRaster

\* C11, amended: on every raster with width >= 1 and height >= 1, every
\* wrapping mode m and every int pair (x, y), negative ones included, the
\* read and the write accessor pixel(x, y, m, m) return a pixel whose index
\* lies in [0, width) x [0, height), and neither throws.
C11_WrappedAccessInsideNonEmptyRaster ==
    (Accessed /\ args.mX = args.mY /\ args.mX \in Wrapping
        /\ args.w >= 1 /\ args.h >= 1) => InsideRaster

C11_Witness ==
    /\ result.op = "write" /\ args.mX = "MIRROR" /\ args.mY = "MIRROR"
    /\ args.w = MaxDim /\ args.h >= 1 /\ args.x < -args.w /\ args.y > args.h
    /\ InsideRaster

\* C12: a coordinate outside [0, dim) on an axis whose mode is BLACK makes
\* the read accessor return the fixed black pixel and the write accessor
\* throw with nothing stored, whatever the other axis; a coordinate inside
\* [0, dim) is returned unchanged by wrapCoord under every mode.
BlackMiss ==
    \/ args.mX = "BLACK" /\ args.x \notin 0..(args.w - 1)
    \/ args.mY = "BLACK" /\ args.y \notin 0..(args.h - 1)
C12_BlackMissReadsBlackAndRefusesWrite ==
    /\ (result.op = "read" /\ BlackMiss) => result.out = BlackPixel
    /\ (result.op = "write" /\ BlackMiss) =>
            (result.out = OutOfRange /\ result.written = {})
    /\ (result.op = "wrapCoord" /\ args.x \in 0..(args.w - 1)) => result.out = args.x

\* The reflection of period 2 * dim.
Reflect(p, dim) ==
    LET q == p \div dim
        r == p % dim
    IN  IF q % 2 = 0 THEN r ELSE dim - 1 - r

\* C13: for dim > 0 and every int p, negative ones included, wrapCoord
\* under MIRROR returns the reflection of p with period 2 * dim, so that
\* p + 2 * dim and -1 - p resolve as p does.
C13_MirrorIsReflection ==
    (result.op = "wrapCoord" /\ args.mX = "MIRROR" /\ args.w > 0) =>
        /\ result.out = Reflect(args.x, args.w)
        /\ (args.x + 2 * args.w \in IntRange =>
                WrapCoord(args.x + 2 * args.w, args.w, "MIRROR") = {result.out})
        /\ (-1 - args.x \in IntRange =>
                WrapCoord(-1 - args.x, args.w, "MIRROR") = {result.out})

\* ------------------------------------------------------------- box blur
\* Arithmetic on pixels is exact and the result is for every raster of the
\* given size at once: a pixel value is a combination of the source
\* raster's pixels, cell |-> how many times that pixel was added.
Cells(w, h) == (0..(w - 1)) \X (0..(h - 1))
Zero(w, h) == [c \in Cells(w, h) |-> 0]
Plus(a, b) == [c \in DOMAIN a |-> a[c] + b[c]]
Minus(a, b) == [c \in DOMAIN a |-> a[c] - b[c]]

\* The value read through the const accessor; g_blackPixel is 0.
Value(w, h, o) ==
    IF o.kind = "pixel"
    THEN [c \in Cells(w, h) |-> IF c = <<o.x, o.y>> THEN 1 ELSE 0]
    ELSE Zero(w, h)
Read(w, h, x, y, mX, mY) ==
    Value(w, h, CHOOSE o \in Pixel(w, h, x, y, mX, mY, FALSE) : TRUE)

\* "fill up the accumulator": the pixels dx = from .. rightSize of row y.
RECURSIVE FillX(_, _, _, _, _, _)
FillX(w, h, from, rightSize, m, y) ==
    IF from > rightSize THEN Zero(w, h)
    ELSE Plus(Read(w, h, from, y, m, m), FillX(w, h, from + 1, rightSize, m, y))

\* One step of the window, and a slip that drops the pixel still inside it.
SlideXDroppingInside(prev, w, h, leftSize, rightSize, m, x, y) ==
    Plus(Minus(prev, Read(w, h, x - leftSize, y, m, m)),
         Read(w, h, x + rightSize, y, m, m))
SlideX(prev, w, h, leftSize, rightSize, m, x, y) ==
    Plus(Minus(prev, Read(w, h, x - 1 - leftSize, y, m, m)),
         Read(w, h, x + rightSize, y, m, m))

\* imFilter(x, y) when the row's loop is done.
RECURSIVE AccX(_, _, _, _, _, _, _)
AccX(w, h, leftSize, rightSize, m, x, y) ==
    IF x = 0 THEN FillX(w, h, -leftSize, rightSize, m, y)
    ELSE SlideX(AccX(w, h, leftSize, rightSize, m, x - 1, y),
                w, h, leftSize, rightSize, m, x, y)

\* The returned raster is imFilter * (1 / (leftSize + rightSize + 1)).
BoxBlurredX(w, h, leftSize, rightSize, mX) ==
    [img |-> [c \in Cells(w, h) |-> AccX(w, h, leftSize, rightSize, mX, c[1], c[2])],
     over |-> leftSize + rightSize + 1]

RECURSIVE FillY(_, _, _, _, _, _)
FillY(w, h, from, rightSize, m, x) ==
    IF from > rightSize THEN Zero(w, h)
    ELSE Plus(Read(w, h, x, from, m, m), FillY(w, h, from + 1, rightSize, m, x))

SlideY(prev, w, h, leftSize, rightSize, m, x, y) ==
    Plus(Minus(prev, Read(w, h, x, y - 1 - leftSize, m, m)),
         Read(w, h, x, y + rightSize, m, m))

RECURSIVE AccY(_, _, _, _, _, _, _)
AccY(w, h, leftSize, rightSize, m, x, y) ==
    IF y = 0 THEN FillY(w, h, -leftSize, rightSize, m, x)
    ELSE SlideY(AccY(w, h, leftSize, rightSize, m, x, y - 1),
                w, h, leftSize, rightSize, m, x, y)

BoxBlurredY(w, h, leftSize, rightSize, mY) ==
    [img |-> [c \in Cells(w, h) |-> AccY(w, h, leftSize, rightSize, mY, c[1], c[2])],
     over |-> leftSize + rightSize + 1]

BlurArgs ==
    [fn : {"boxBlurred"}, w : 0..MaxRow, h : 0..MaxRow,
     leftSize : 0..MaxRadius, rightSize : 0..MaxRadius, m : BorderModes]

InitBlur ==
    /\ NewGLImage
    /\ m_asyncRetrieved = FALSE
    /\ args \in BlurArgs
    /\ result = NoResult

\* Each row's loop stores imFilter(0, y) first: the raster has a column 0.
DoBoxBlurredX ==
    /\ result = NoResult
    /\ args.w >= 1
    /\ result' = [op |-> "boxBlurredX"] @@
                 BoxBlurredX(args.w, args.h, args.leftSize, args.rightSize, args.m)
    /\ UNCHANGED <<ctl, args>>

\* Each column's loop stores imFilter(x, 0) first: the raster has a row 0.
DoBoxBlurredY ==
    /\ result = NoResult
    /\ args.h >= 1
    /\ result' = [op |-> "boxBlurredY"] @@
                 BoxBlurredY(args.w, args.h, args.leftSize, args.rightSize, args.m)
    /\ UNCHANGED <<ctl, args>>

NextBlur ==
    \/ DoBoxBlurredX
    \/ DoBoxBlurredY

SpecBlur == InitBlur /\ [][NextBlur]_vars

\* The window sum computed directly: pixels from .. to of row y, column x.
RECURSIVE WindowX(_, _, _, _, _, _)
WindowX(w, h, from, to, m, y) ==
    IF from > to THEN Zero(w, h)
    ELSE Plus(WindowX(w, h, from, to - 1, m, y), Read(w, h, to, y, m, m))
RECURSIVE WindowY(_, _, _, _, _, _)
WindowY(w, h, from, to, m, x) ==
    IF from > to THEN Zero(w, h)
    ELSE Plus(WindowY(w, h, from, to - 1, m, x), Read(w, h, x, to, m, m))

LeftAnchors == {"TOP_LEFT", "MIDDLE_LEFT", "BOTTOM_LEFT"}
CenterAnchors == {"TOP_CENTER", "MIDDLE_CENTER", "BOTTOM_CENTER"}
RightAnchors == {"TOP_RIGHT", "MIDDLE_RIGHT", "BOTTOM_RIGHT"}
TopAnchors == {"TOP_LEFT", "TOP_CENTER", "TOP_RIGHT"}
MiddleAnchors == {"MIDDLE_LEFT", "MIDDLE_CENTER", "MIDDLE_RIGHT"}
BottomAnchors == {"BOTTOM_LEFT", "BOTTOM_CENTER", "BOTTOM_RIGHT"}
CanvasAnchors == LeftAnchors \cup CenterAnchors \cup RightAnchors

\* (newW - oldW) / 2 in int arithmetic, and the same rounded down.
HalfRoundedDown(new, old) == (new - old) \div 2
Half(new, old) == Quot(new - old, 2)

\* The two switch statements: the top-left corner before clipping.
CornerX(oldW, newW, anchor) ==
    CASE anchor \in RightAnchors -> newW - oldW
      [] anchor \in CenterAnchors -> Half(newW, oldW)
      [] OTHER -> 0
CornerY(oldH, newH, anchor) ==
    CASE anchor \in BottomAnchors -> newH - oldH
      [] anchor \in MiddleAnchors -> Half(newH, oldH)
      [] OTHER -> 0

BgColor == [bg |-> TRUE, x |-> -1, y |-> -1]
SourcePixel(x, y) == [bg |-> FALSE, x |-> x, y |-> y]

\* A block of an oldW x oldH raster: Eigen checks that it lies inside.
BlockInside(w, h, x, y, bw, bh) ==
    x >= 0 /\ y >= 0 /\ bw >= 0 /\ bh >= 0 /\ x + bw <= w /\ y + bh <= h

\* HDRImage::resizedCanvas: the raster returned, with the corner and the
\* two blocks it went through; a pixel is bgColor or a pixel of the source.
ResizedCanvas(oldW, oldH, newW, newH, anchor) ==
    LET cx == CornerX(oldW, newW, anchor)
        cy == CornerY(oldH, newH, anchor)
        srcX == IF cx < 0 THEN -cx ELSE 0
        dstX == IF cx < 0 THEN 0 ELSE cx
        srcY == IF cy < 0 THEN -cy ELSE 0
        dstY == IF cy < 0 THEN 0 ELSE cy
        bsX == Min(oldW, newW)
        bsY == Min(oldH, newH)
        ok == /\ BlockInside(newW, newH, dstX, dstY, bsX, bsY)
              /\ BlockInside(oldW, oldH, srcX, srcY, bsX, bsY)
    IN  [w |-> newW, h |-> newH,
         corner |-> <<cx, cy>>,
         rangeError |-> ~ok,
         img |-> [c \in Cells(newW, newH) |->
                    IF /\ ok
                       /\ c[1] \in dstX..(dstX + bsX - 1)
                       /\ c[2] \in dstY..(dstY + bsY - 1)
                    THEN SourcePixel(srcX + c[1] - dstX, srcY + c[2] - dstY)
                    ELSE BgColor]]

CanvasArgs ==
    [fn : {"resizedCanvas"}, oldW : Dims, oldH : Dims, newW : Dims, newH : Dims,
     anchor : CanvasAnchors]

InitCanvas ==
    /\ NewGLImage
    /\ m_asyncRetrieved = FALSE
    /\ args \in CanvasArgs
    /\ result = NoResult

DoResizedCanvas ==
    /\ result = NoResult
    /\ result' = [op |-> "resizedCanvas"] @@
                 ResizedCanvas(args.oldW, args.oldH, args.newW, args.newH, args.anchor)
    /\ UNCHANGED <<ctl, args>>

NextCanvas == DoResizedCanvas

SpecCanvas == InitCanvas /\ [][NextCanvas]_vars

\* The result is the source placed with its top-left corner at (offX, offY).
PlacedAt(offX, offY) ==
    /\ result.w = args.newW /\ result.h = args.newH
    /\ ~result.rangeError
    /\ result.corner = <<offX, offY>>
    /\ \A c \in Cells(args.newW, args.newH) :
          result.img[c] =
             IF <<c[1] - offX, c[2] - offY>> \in Cells(args.oldW, args.oldH)
             THEN SourcePixel(c[1] - offX, c[2] - offY)
             ELSE BgColor

\* C15 as stated: CENTER and MIDDLE place at floor((new - old) / 2).
C15_CanvasPlacedRoundingDown ==
    result.op = "resizedCanvas" =>
        PlacedAt(CASE args.anchor \in RightAnchors -> args.newW - args.oldW
                   [] args.anchor \in CenterAnchors ->
                        HalfRoundedDown(args.newW, args.oldW)
                   [] OTHER -> 0,
                 CASE args.anchor \in BottomAnchors -> args.newH - args.oldH
                   [] args.anchor \in MiddleAnchors ->
                        HalfRoundedDown(args.newH, args.oldH)
                   [] OTHER -> 0)

\* C15, amended: for all old and new sizes and all 9 anchors resizedCanvas
\* returns a newW x newH raster, the copied block lies inside the source and
\* the destination, the horizontal offset is 0 for LEFT, newW - oldW for
\* RIGHT and (newW - oldW) / 2 rounded toward zero for CENTER (vertically the
\* same for TOP, BOTTOM, MIDDLE), and result pixel (x, y) is source pixel
\* (x - offX, y - offY) when that lies in the source, else bgColor.
C15_CanvasPlacedRoundingTowardZero ==
    result.op = "resizedCanvas" =>
        PlacedAt(CASE args.anchor \in RightAnchors -> args.newW - args.oldW
                   [] args.anchor \in CenterAnchors ->
                        IF args.newW >= args.oldW
                        THEN (args.newW - args.oldW) \div 2
                        ELSE -((args.oldW - args.newW) \div 2)
                   [] OTHER -> 0,
                 CASE args.anchor \in BottomAnchors -> args.newH - args.oldH
                   [] args.anchor \in MiddleAnchors ->
                        IF args.newH >= args.oldH
                        THEN (args.newH - args.oldH) \div 2
                        ELSE -((args.oldH - args.newH) \div 2)
                   [] OTHER -> 0)

C15_Witness ==
    /\ result.op = "resizedCanvas"
    /\ args.anchor = "MIDDLE_CENTER"
    /\ args.oldW = 3 /\ args.newW = 2 /\ args.oldH = 1 /\ args.newH = 3
    /\ result.img[<<0, 1>>] = SourcePixel(0, 0)
    /\ result.img[<<1, 0>>] = BgColor

\* ------------------------------------------------- Bayer mosaic, demosaic
\* What is followed through a pipeline is where each channel value of each
\* pixel comes from: "orig" (the value of the input raster), "zero" (masked
\* by the mosaic) or "est" (stored by an estimator). Channels are 0, 1, 2
\* (r, g, b) as in the code.
Channels == {0, 1, 2}

\* for (v = from; v < to; v += 2), and parallel_for(from, to, 2, ...).
Steps(from, to) == {v \in from..(to - 1) : (v - from) % 2 = 0}

\* An access to pixel (x, y) of a buffer: a store to channel c, or a read.
St(buf, x, y, c) == [buf |-> buf, x |-> x, y |-> y, c |-> c, store |-> TRUE]
Rd(buf, x, y) == [buf |-> buf, x |-> x, y |-> y, c |-> -1, store |-> FALSE]
RdAll(buf, x, y, offs) == {Rd(buf, x + o[1], y + o[2]) : o \in offs}

Here == {<<0, 0>>}
Plus1 == {<<0, -1>>, <<0, 1>>, <<-1, 0>>, <<1, 0>>}
Plus2 == {<<0, -2>>, <<0, 2>>, <<-2, 0>>, <<2, 0>>}
Diag == {<<-1, -1>>, <<1, -1>>, <<-1, 1>>, <<1, 1>>}
Row2 == {<<-2, 0>>, <<-1, 0>>, <<0, 0>>, <<1, 0>>, <<2, 0>>}
Col2 == {<<0, -2>>, <<0, -1>>, <<0, 0>>, <<0, 1>>, <<0, 2>>}

\* Vector2i((redOffset.x() + 1) % 2, (redOffset.y() + 1) % 2)
Other(ro) == <<(ro[1] + 1) % 2, (ro[2] + 1) % 2>>

\* bayerMosaic: pixel (x, y) is multiplied by mosaic[r][c].
MosaicChannel(x, y, ro) ==
    LET r == (y - ro[2]) % 2
        c == (x - ro[1]) % 2
    IN  IF r = 0 /\ c = 0 THEN 0 ELSE IF r = 1 /\ c = 1 THEN 2 ELSE 1
BayerMosaic(img, ro) ==
    [p \in DOMAIN img |->
        [ch \in Channels |-> IF ch = MosaicChannel(p[1], p[2], ro)
                             THEN img[p][ch] ELSE "zero"]]

\* interpGreenH(raw, x, y), interpGreenV(raw, x, y): the pixels read.
InterpGreenH(raw, x, y) == RdAll(raw, x, y, Row2)
InterpGreenV(raw, x, y) == RdAll(raw, x, y, Col2)

\* bilinearGreen(raw, offsetX, offsetY), raw being *this.
BilinearGreen(w, h, ox, oy) ==
    UNION {LET l == xx + ox
               t == yy + oy
               r == l + 1
               b == t + 1
           IN  {St("this", l, t, 1), St("this", r, b, 1)}
               \cup RdAll("this", l, t, Plus1) \cup RdAll("this", r, b, Plus1) :
           xx \in Steps(1, w - 1 - ox), yy \in Steps(1, h - 1 - oy)}

DemosaicGreenLinear(w, h, ro) == BilinearGreen(w, h, ro[1], ro[2])

\* A slip of demosaicGreenHorizontal: the second store stays in row y.
DemosaicGreenHorizontalSameRow(w, h, ro) ==
    UNION {{St("this", x, y, 1), St("this", x + 1, y, 1)}
           \cup InterpGreenH("raw", x, y) \cup InterpGreenH("raw", x + 1, y + 1) :
           x \in Steps(2 + ro[1], w - 2), y \in Steps(ro[2], h)}

DemosaicGreenHorizontal(w, h, ro) ==
    UNION {{St("this", x, y, 1), St("this", x + 1, y + 1, 1)}
           \cup InterpGreenH("raw", x, y) \cup InterpGreenH("raw", x + 1, y + 1) :
           x \in Steps(2 + ro[1], w - 2), y \in Steps(ro[2], h)}

DemosaicGreenVertical(w, h, ro) ==
    UNION {{St("this", x, y, 1), St("this", x + 1, y + 1, 1)}
           \cup InterpGreenV("raw", x, y) \cup InterpGreenV("raw", x + 1, y + 1) :
           x \in Steps(ro[1], w), y \in Steps(2 + ro[2], h - 2)}

\* MalvarGreen(raw, c, redOffset), raw being *this.
MalvarGreen(w, h, c, ro) ==
    UNION {LET x == xx + ro[1]
               y == yy + ro[2]
           IN  {St("this", x, y, 1)}
               \cup RdAll("this", x, y, Here \cup Plus1 \cup Plus2) :
           xx \in Steps(2, w - 2 - ro[1]), yy \in Steps(2, h - 2 - ro[2])}

DemosaicGreenMalvar(w, h, ro) ==
    MalvarGreen(w, h, 0, ro) \cup MalvarGreen(w, h, 2, Other(ro))

\* PhelippeauGreen, third loop: the body for one x of the row started at y.
\* The body itself advances x and y by one (x++; y++), so the next body runs
\* at x + 3 in row y + 1.
PhelippeauSite(x, y) ==
    {St("this", x, y, 1)} \cup RdAll("Gh", x, y, Here \cup Plus1)
                          \cup RdAll("Gv", x, y, Here \cup Plus1)
RECURSIVE PhelippeauRow(_, _, _)
PhelippeauRow(w, x, y) ==
    IF x < w - 2
    THEN PhelippeauSite(x, y) \cup PhelippeauSite(x + 1, y + 1)
         \cup PhelippeauRow(w, x + 3, y + 1)
    ELSE {}

\* PhelippeauGreen(raw, redOffset), raw being *this.
PhelippeauGreen(w, h, ro) ==
    UNION {{St("Gh", x, y, 1), St("Gh", x + 1, y + 1, 1)}
           \cup InterpGreenH("this", x, y) \cup InterpGreenH("this", x + 1, y + 1) :
           x \in Steps(2 + ro[1], w - 2), y \in Steps(ro[2], h)}
    \cup
    UNION {{St("Gv", x, y, 1), St("Gv", x + 1, y + 1, 1)}
           \cup InterpGreenV("this", x, y) \cup InterpGreenV("this", x + 1, y + 1) :
           x \in Steps(ro[1], w), y \in Steps(2 + ro[2], h - 2)}
    \cup
    UNION {PhelippeauRow(w, 2 + ro[1], y) : y \in Steps(2 + ro[2], h - 2)}

DemosaicGreenPhelippeau(w, h, ro) == PhelippeauGreen(w, h, ro)

\* bilinearRedBlue(raw, c, redOffset): diagonal, horizontal, vertical pass.
BilinearRedBlue(w, h, c, ro) ==
    UNION {{St("this", x, y, c)} \cup RdAll("this", x, y, Diag) :
           x \in Steps(ro[1] + 1, w - 1), y \in Steps(ro[2] + 1, h - 1)}
    \cup
    UNION {{St("this", x, y, c)} \cup RdAll("this", x, y, {<<-1, 0>>, <<1, 0>>}) :
           x \in Steps(ro[1] + 1, w - 1), y \in Steps(ro[2], h)}
    \cup
    UNION {{St("this", x, y, c)} \cup RdAll("this", x, y, {<<0, -1>>, <<0, 1>>}) :
           x \in Steps(ro[1], w), y \in Steps(ro[2] + 1, h - 1)}

DemosaicRedBlueLinear(w, h, ro) ==
    BilinearRedBlue(w, h, 0, ro) \cup BilinearRedBlue(w, h, 2, Other(ro))

\* greenBasedRorB(raw, c, redOffset): horizontal, vertical, diagonal pass.
GreenBasedRorB(w, h, c, ro) ==
    UNION {{St("this", x, y, c)}
           \cup RdAll("this", x, y, Here \cup {<<-1, 0>>, <<1, 0>>}) :
           x \in Steps(ro[1] + 1, w - 1), y \in Steps(ro[2], h)}
    \cup
    UNION {{St("this", x, y, c)}
           \cup RdAll("this", x, y, Here \cup {<<0, -1>>, <<0, 1>>}) :
           x \in Steps(ro[1], w), y \in Steps(ro[2] + 1, h - 1)}
    \cup
    UNION {{St("this", x, y, c)} \cup RdAll("this", x, y, Here \cup Diag) :
           x \in Steps(ro[1] + 1, w - 1), y \in Steps(ro[2] + 1, h - 1)}

DemosaicRedBlueGreenGuidedLinear(w, h, ro) ==
    GreenBasedRorB(w, h, 0, ro) \cup GreenBasedRorB(w, h, 2, Other(ro))

\* MalvarRedOrBlueAtGreen(raw, c, redOffset, horizontal)
MalvarRedOrBlueAtGreen(w, h, c, ro, horizontal) ==
    LET dx == IF horizontal THEN 1 ELSE 0
        dy == IF horizontal THEN 0 ELSE 1
    IN  UNION {{St("this", x, y, c)}
               \cup RdAll("this", x, y,
                          Here \cup Diag \cup {<<-2, 0>>, <<2, 0>>, <<0, -2>>, <<0, 2>>}
                               \cup {<<-dx, -dy>>, <<dx, dy>>}) :
               x \in Steps(2 + ro[1], w - 2), y \in Steps(2 + ro[2], h - 2)}

\* MalvarRedOrBlue(raw, c1, c2, redOffset)
MalvarRedOrBlue(w, h, c1, c2, ro) ==
    UNION {{St("this", x, y, c1)} \cup RdAll("this", x, y, Here \cup Diag \cup Plus2) :
           x \in Steps(2 + ro[1], w - 2), y \in Steps(2 + ro[2], h - 2)}

DemosaicRedBlueMalvar(w, h, ro) ==
    MalvarRedOrBlueAtGreen(w, h, 0, <<Other(ro)[1], ro[2]>>, TRUE)
    \cup MalvarRedOrBlueAtGreen(w, h, 0, <<ro[1], Other(ro)[2]>>, FALSE)
    \cup MalvarRedOrBlueAtGreen(w, h, 2, <<ro[1], Other(ro)[2]>>, TRUE)
    \cup MalvarRedOrBlueAtGreen(w, h, 2, <<Other(ro)[1], ro[2]>>, FALSE)
    \cup MalvarRedOrBlue(w, h, 0, 2, Other(ro))
    \cup MalvarRedOrBlue(w, h, 2, 0, ro)

\* The raster stores pixel (x, y) at data()[x + y * width()] (line 558 hands
\* data() to a scanline resizer). With Eigen's index assertions compiled in
\* an access outside the raster aborts; without them a store goes to that
\* address: into another pixel of the raster, or past its end.
Inside(w, h, a) == a.x \in 0..(w - 1) /\ a.y \in 0..(h - 1)
Linear(w, a) == a.x + a.y * w
Past(w, h, a) == ~Inside(w, h, a) /\ Linear(w, a) \notin 0..(w * h - 1)
Target(w, h, a) ==
    IF Inside(w, h, a) \/ Past(w, h, a) THEN <<a.x, a.y>>
    ELSE <<Linear(w, a) % w, Linear(w, a) \div w>>

Estimated(img, w, h, accesses) ==
    LET stores == {a \in accesses : a.store /\ a.buf = "this"}
    IN  [p \in DOMAIN img |->
            [ch \in Channels |->
                IF \E a \in stores : Target(w, h, a) = p /\ a.c = ch
                THEN "est" ELSE img[p][ch]]]

BayerArgs ==
    [fn : {"demosaic"}, w : 0..MaxBayer, h : 0..MaxBayer,
     redOffset : {0, 1} \X {0, 1}, checked : BOOLEAN]

Original(w, h) == [p \in Cells(w, h) |-> [ch \in Channels |-> "orig"]]

InitBayer ==
    /\ NewGLImage
    /\ m_asyncRetrieved = FALSE
    /\ args \in BayerArgs
    /\ result = [op |-> "input", img |-> Original(args.w, args.h), stray |-> FALSE]

DoBayerMosaic ==
    /\ result.op = "input"
    /\ result' = [result EXCEPT !.op = "mosaic",
                                !.img = BayerMosaic(result.img, args.redOffset)]
    /\ UNCHANGED <<ctl, args>>

\* An estimator runs on the raster reached at stage `from`.
Estimate(from, to, accesses) ==
    /\ result.op = from
    /\ result' =
         IF args.checked /\ \E a \in accesses : ~Inside(args.w, args.h, a)
         THEN [result EXCEPT !.op = "aborted"]
         ELSE [op |-> to,
               img |-> Estimated(result.img, args.w, args.h, accesses),
               stray |-> result.stray \/ \E a \in accesses :
                                            a.store /\ Past(args.w, args.h, a)]
    /\ UNCHANGED <<ctl, args>>

DoDemosaicGreenLinear ==
    Estimate("mosaic", "green", DemosaicGreenLinear(args.w, args.h, args.redOffset))
DoDemosaicGreenHorizontal ==
    Estimate("mosaic", "green", DemosaicGreenHorizontal(args.w, args.h, args.redOffset))
DoDemosaicGreenVertical ==
    Estimate("mosaic", "green", DemosaicGreenVertical(args.w, args.h, args.redOffset))
DoDemosaicGreenMalvar ==
    Estimate("mosaic", "green", DemosaicGreenMalvar(args.w, args.h, args.redOffset))
DoDemosaicGreenPhelippeau ==
    Estimate("mosaic", "green", DemosaicGreenPhelippeau(args.w, args.h, args.redOffset))
DoDemosaicRedBlueLinear ==
    Estimate("green", "done", DemosaicRedBlueLinear(args.w, args.h, args.redOffset))
DoDemosaicRedBlueGreenGuidedLinear ==
    Estimate("green", "done",
             DemosaicRedBlueGreenGuidedLinear(args.w, args.h, args.redOffset))
DoDemosaicRedBlueMalvar ==
    Estimate("green", "done", DemosaicRedBlueMalvar(args.w, args.h, args.redOffset))

NextBayer ==
    \/ DoBayerMosaic
    \/ DoDemosaicGreenLinear
    \/ DoDemosaicGreenHorizontal
    \/ DoDemosaicGreenVertical
    \/ DoDemosaicGreenMalvar
    \/ DoDemosaicGreenPhelippeau
    \/ DoDemosaicRedBlueLinear
    \/ DoDemosaicRedBlueGreenGuidedLinear
    \/ DoDemosaicRedBlueMalvar

SpecBayer == InitBayer /\ [][NextBayer]_vars

\* C16: after bayerMosaic(redOffset = (0, 0)), any green estimator and any
\* red/blue estimator, the green channel at every green-sample site
\* (x + y odd) is still the original raster's green: no estimator stores
\* to the green channel of a green-sample site.
C16_GreenSitesKeepOriginalGreen ==
    (args.redOffset = <<0, 0>> /\ result.op \in {"mosaic", "green", "done"}) =>
        \A p \in Cells(args.w, args.h) :
            (p[1] + p[2]) % 2 = 1 => result.img[p][1] = "orig"

C16_Witness ==
    /\ args.redOffset = <<0, 0>> /\ result.op = "done"
    /\ args.w = 5 /\ args.h = 5 /\ ~args.checked
    /\ result.img[<<2, 2>>][1] = "est" /\ result.img[<<3, 3>>][1] = "est"
    /\ result.img[<<2, 3>>][0] = "est" /\ result.img[<<2, 3>>][2] = "est"
    /\ result.img[<<2, 3>>][1] = "orig"

\* ------------------------------------------- demosaicAHD: the arbitration
\* The pixels the homogeneity loop and the arbitration loop visit.
Interior(w, h) == (1..(w - 2)) \X (1..(h - 2))

\* A homogeneity map counts, per interior pixel, the similar ones among its
\* NumNeighbors neighbours; it is zero on the border. The maps tried are the
\* flat ones and those with a single non-zero pixel.
HomoMaps(w, h) ==
    {[c \in Cells(w, h) |-> IF c \in Interior(w, h) THEN v ELSE 0] :
        v \in 0..NumNeighbors}
    \cup {[c \in Cells(w, h) |-> IF c = p THEN v ELSE 0] :
            p \in Interior(w, h), v \in 1..NumNeighbors}

\* for (j = y-1 ..) for (i = x-1 ..) hm += homo(i, j), from (i, j) on.
RECURSIVE WindowSum(_, _, _, _, _)
WindowSum(homo, x, y, i, j) ==
    IF j > y + 1 THEN 0
    ELSE IF i > x + 1 THEN WindowSum(homo, x, y, x - 1, j + 1)
    ELSE homo[<<i, j>>] + WindowSum(homo, x, y, i + 1, j)

\* A pixel value in halves of rgbH(x, y), rgbV(x, y) and the pixel's own
\* value before the loop.
FromH == [h |-> 2, v |-> 0, own |-> 0]
FromV == [h |-> 0, v |-> 2, own |-> 0]
Blend == [h |-> 1, v |-> 1, own |-> 0]
Untouched == [h |-> 0, v |-> 0, own |-> 2]

\* The if / else if / else of the loop body, and a slip that lets ties go to
\* the horizontal candidate.
ArbitratedTiesToH(hmH, hmV) == IF hmH >= hmV THEN FromH ELSE FromV
Arbitrated(hmH, hmV) ==
    IF hmH > hmV THEN FromH
    ELSE IF hmV > hmH THEN FromV
    ELSE Blend

\* "Combine the most homogenous pixels for the final result"
CombineMostHomogeneous(w, h, homoH, homoV) ==
    [c \in Cells(w, h) |->
        IF c[2] \in 1..(h - 2) /\ c[1] \in 1..(w - 2)
        THEN Arbitrated(WindowSum(homoH, c[1], c[2], c[1] - 1, c[2] - 1),
                        WindowSum(homoV, c[1], c[2], c[1] - 1, c[2] - 1))
        ELSE Untouched]

InitAHD ==
    /\ NewGLImage
    /\ m_asyncRetrieved = FALSE
    /\ \E w \in 0..MaxAHD, h \in 0..MaxAHD :
          args \in [fn : {"demosaicAHD"}, w : {w}, h : {h},
                    homoH : HomoMaps(w, h), homoV : HomoMaps(w, h)]
    /\ result = NoResult

DoCombineMostHomogeneous ==
    /\ result = NoResult
    /\ result' = [op |-> "combined",
                  img |-> CombineMostHomogeneous(args.w, args.h, args.homoH, args.homoV)]
    /\ UNCHANGED <<ctl, args>>

NextAHD == DoCombineMostHomogeneous

SpecAHD == InitAHD /\ [][NextAHD]_vars

\* The homogeneity summed over the 3 x 3 pixels around c.
RECURSIVE Total(_, _)
Total(homo, cells) ==
    IF cells = {} THEN 0
    ELSE LET p == CHOOSE q \in cells : TRUE
         IN  homo[p] + Total(homo, cells \ {p})
Around(c) == ((c[1] - 1)..(c[1] + 1)) \X ((c[2] - 1)..(c[2] + 1))

\* C20: every pixel the arbitration loop handles gets the horizontal
\* candidate when the 3 x 3 sum of the horizontal homogeneity map is strictly
\* greater, the vertical candidate when the vertical sum is strictly
\* greater, the per-channel mean of the two on equal sums; the loop writes
\* nothing else.
C20_ArbitrationBySummedHomogeneity ==
    result.op = "combined" =>
        \A c \in Cells(args.w, args.h) :
            IF c \in Interior(args.w, args.h)
            THEN LET sH == Total(args.homoH, Around(c))
                     sV == Total(args.homoV, Around(c))
                 IN  /\ sH > sV => result.img[c] = FromH
                     /\ sV > sH => result.img[c] = FromV
                     /\ sH = sV => result.img[c] = Blend
            ELSE result.img[c] = Untouched

C20_Witness ==
    /\ result.op = "combined" /\ args.w = 5 /\ args.h = 3
    /\ args.homoH[<<1, 1>>] = 2 /\ args.homoV[<<3, 1>>] = 2
    /\ result.img[<<1, 1>>] = FromH
    /\ result.img[<<2, 1>>] = Blend
    /\ result.img[<<3, 1>>] = FromV
    /\ result.img[<<0, 1>>] = Untouched

\* ------------------------------------------- demosaicAHD: the whole pass
\* bayerColor(x, y): bayer[y % 2][x % 2].
BayerColor(x, y) ==
    IF y % 2 = 0 /\ x % 2 = 0 THEN 0 ELSE IF y % 2 = 1 /\ x % 2 = 1 THEN 2 ELSE 1

\* A candidate: green by the given estimator reading the mosaic (raw is
\* *this), then red and blue guided by that green.
Candidate(img, w, h, ro, green) ==
    Estimated(Estimated(img, w, h, green), w, h,
              DemosaicRedBlueGreenGuidedLinear(w, h, ro))

\* The arbitration stores rgbH(x, y), rgbV(x, y) or their mean: a channel
\* that both candidates hold unchanged stays as it is, any other is an
\* estimate.
Arbitration(img, w, h, rgbH, rgbV) ==
    [p \in DOMAIN img |->
        IF p \in Interior(w, h)
        THEN [ch \in Channels |-> IF rgbH[p][ch] = rgbV[p][ch]
                                  THEN rgbH[p][ch] ELSE "est"]
        ELSE img[p]]

\* demosaicBorder(border): rows border <= y < height() - border jump from
\* x == border to x = width() - border; a jump backwards is taken again and
\* again.
SkipRows(h, border) == {y \in 0..(h - 1) : y >= border /\ y < h - border}
BorderHangs(w, h, border) ==
    SkipRows(h, border) # {} /\ border < w /\ w - border < border
BorderPixels(w, h, border) ==
    {p \in Cells(w, h) :
        p[2] \notin SkipRows(h, border) \/ p[1] < border \/ p[1] >= w - border}
DemosaicBorder(img, w, h, border) ==
    [p \in DOMAIN img |->
        [ch \in Channels |->
            IF p \in BorderPixels(w, h, border) /\ ch # BayerColor(p[1], p[2])
            THEN "est" ELSE img[p][ch]]]

BorderSize == 3

DemosaicAHD(img, w, h, ro) ==
    LET rgbH == Candidate(img, w, h, ro, DemosaicGreenHorizontal(w, h, ro))
        rgbV == Candidate(img, w, h, ro, DemosaicGreenVertical(w, h, ro))
    IN  DemosaicBorder(Arbitration(img, w, h, rgbH, rgbV), w, h, BorderSize)

\* The accesses of the candidate construction that leave the raster.
OutsideOf(w, h, accesses) == {a \in accesses : ~Inside(w, h, a)}

InitMosaicAHD ==
    /\ NewGLImage
    /\ m_asyncRetrieved = FALSE
    /\ args \in [fn : {"demosaicAHD"}, w : 0..MaxBayer, h : 0..MaxBayer,
                 redOffset : {0, 1} \X {0, 1}, checked : BOOLEAN]
    /\ result = [op |-> "input", img |-> Original(args.w, args.h), stray |-> FALSE]

\* demosaicAHD(redOffset, cameraToXYZ): it aborts at the first access Eigen
\* refuses, never returns when the border pass hangs, and otherwise returns
\* with the raster demosaiced.
DoDemosaicAHD ==
    /\ result.op = "mosaic"
    /\ LET w == args.w
           h == args.h
           outH == OutsideOf(w, h, DemosaicGreenHorizontal(w, h, args.redOffset))
           outV == OutsideOf(w, h, DemosaicGreenVertical(w, h, args.redOffset))
           outRB == OutsideOf(w, h, DemosaicRedBlueGreenGuidedLinear(w, h, args.redOffset))
       IN  result' =
             [op |-> IF args.checked /\ outH \cup outV \cup outRB # {} THEN "aborted"
                     ELSE IF BorderHangs(w, h, BorderSize) THEN "hangs"
                     ELSE "demosaicAHD",
              img |-> DemosaicAHD(result.img, w, h, args.redOffset),
              stray |-> \E a \in outH \cup outV \cup outRB : a.store /\ Past(w, h, a),
              outH |-> outH, outV |-> outV]
    /\ UNCHANGED <<ctl, args>>

NextMosaicAHD == DoBayerMosaic \/ DoDemosaicAHD

SpecMosaicAHD == InitMosaicAHD /\ [][NextMosaicAHD]_vars

\* C25: for every raster with width >= 5 and height >= 5 and every
\* redOffset, demosaicGreenHorizontal and demosaicGreenVertical (and so
\* demosaicAHD) read and write only pixels inside the raster.
C25_GreenCandidatesStayInside ==
    (result.op \in {"aborted", "hangs", "demosaicAHD"} /\ args.w >= 5 /\ args.h >= 5)
        => (result.outH = {} /\ result.outV = {})

\* C26: after bayerMosaic(redOffset) and demosaicAHD(redOffset, M), every
\* pixel, border pixels included, still holds its originally sampled value
\* in its own Bayer channel (the one bayerMosaic(redOffset) left).
C26_SampledChannelKept ==
    result.op = "demosaicAHD" =>
        \A p \in Cells(args.w, args.h) :
            result.img[p][MosaicChannel(p[1], p[2], args.redOffset)] = "orig"

\* ---------------------------------------------------------------- convolved
\* Kernel weights, and the kernels of a shape: kernel(xFilter, yFilter).
Weights == {0, 1}
Taps(rows, cols) == (0..(rows - 1)) \X (0..(cols - 1))
Kernels(rows, cols) == [Taps(rows, cols) -> Weights]

Scaled(k, v) == [c \in DOMAIN v |-> k * v[c]]

\* int((kernel.rows()-1.0)/2.0): the conversion truncates toward zero.
Center(n) == Quot(n - 1, 2)

\* int xx = x-xFilter+centerX, and a slip that walks the kernel the other way.
TapCorrelating(x, xFilter, centerX) == x + xFilter - centerX
Tap(x, xFilter, centerX) == x - xFilter + centerX

\* The yFilter loop and the xFilter loop: accum and weightSum from the given
\* tap on.
RECURSIVE KernelColumn(_, _, _, _, _, _, _, _, _, _, _)
KernelColumn(w, h, kernel, rows, cols, mX, mY, xx, y, xFilter, yFilter) ==
    IF yFilter >= cols THEN [accum |-> Zero(w, h), weightSum |-> 0]
    ELSE LET rest == KernelColumn(w, h, kernel, rows, cols, mX, mY, xx, y,
                                  xFilter, yFilter + 1)
             yy == Tap(y, yFilter, Center(cols))
         IN  [accum |-> Plus(Scaled(kernel[<<xFilter, yFilter>>],
                                    Read(w, h, xx, yy, mX, mY)), rest.accum),
              weightSum |-> kernel[<<xFilter, yFilter>>] + rest.weightSum]

RECURSIVE KernelRows(_, _, _, _, _, _, _, _, _, _)
KernelRows(w, h, kernel, rows, cols, mX, mY, x, y, xFilter) ==
    IF xFilter >= rows THEN [accum |-> Zero(w, h), weightSum |-> 0]
    ELSE LET rest == KernelRows(w, h, kernel, rows, cols, mX, mY, x, y, xFilter + 1)
             col == KernelColumn(w, h, kernel, rows, cols, mX, mY,
                                 Tap(x, xFilter, Center(rows)), y, xFilter, 0)
         IN  [accum |-> Plus(col.accum, rest.accum),
              weightSum |-> col.weightSum + rest.weightSum]

\* imFilter(x, y) = accum / weightSum, kept as the pair.
Convolved(w, h, kernel, rows, cols, mX, mY) ==
    [c \in Cells(w, h) |-> KernelRows(w, h, kernel, rows, cols, mX, mY, c[1], c[2], 0)]

InitConv ==
    /\ NewGLImage
    /\ m_asyncRetrieved = FALSE
    /\ \E rows \in 0..MaxTaps, cols \in 0..MaxTaps :
          /\ rows * cols <= MaxTaps
          /\ args \in [fn : {"convolved"}, w : 0..MaxConv, h : 0..MaxConv,
                       rows : {rows}, cols : {cols}, kernel : Kernels(rows, cols),
                       mX : BorderModes, mY : BorderModes]
    /\ result = NoResult

DoConvolved ==
    /\ result = NoResult
    /\ result' = [op |-> "convolved",
                  img |-> Convolved(args.w, args.h, args.kernel, args.rows, args.cols,
                                    args.mX, args.mY)]
    /\ UNCHANGED <<ctl, args>>

NextConv == DoConvolved

SpecConv == InitConv /\ [][NextConv]_vars

\* The sum over a set of taps of kernel(i, j) * pixel(at(i, j)), and of
\* kernel(i, j).
RECURSIVE WeightedSum(_, _)
WeightedSum(taps, term) ==
    IF taps = {} THEN Zero(args.w, args.h)
    ELSE LET t == CHOOSE u \in taps : TRUE
         IN  Plus(term[t], WeightedSum(taps \ {t}, term))
RECURSIVE KernelSum(_)
KernelSum(taps) ==
    IF taps = {} THEN 0
    ELSE LET t == CHOOSE u \in taps : TRUE
         IN  args.kernel[t] + KernelSum(taps \ {t})
FloorHalf(n) == (n - 1) \div 2

\* C21 as stated: output(x, y) is the sum over (i, j) of
\* kernel(i, j) * pixel(x+i-cx, y+j-cy) divided by the sum of all
\* kernel(i, j), cx = floor((rows-1)/2), cy = floor((cols-1)/2).
C21_NormalisedCorrelation ==
    result.op = "convolved" =>
        \A c \in Cells(args.w, args.h) :
            LET At == [t \in Taps(args.rows, args.cols) |-> Scaled(args.kernel[t],
                                Read(args.w, args.h,
                                     c[1] + t[1] - FloorHalf(args.rows),
                                     c[2] + t[2] - FloorHalf(args.cols),
                                     args.mX, args.mY))]
            IN  /\ result.img[c].accum = WeightedSum(Taps(args.rows, args.cols), At)
                /\ result.img[c].weightSum = KernelSum(Taps(args.rows, args.cols))

\* C21, amended: the kernel is walked against the raster, a convolution:
\* output(x, y) is the sum over (i, j) of kernel(i, j) * pixel(x-i+cx, y-j+cy)
\* divided by the sum of all kernel(i, j).
C21_NormalisedConvolution ==
    result.op = "convolved" =>
        \A c \in Cells(args.w, args.h) :
            LET At == [t \in Taps(args.rows, args.cols) |-> Scaled(args.kernel[t],
                                Read(args.w, args.h,
                                     c[1] - t[1] + FloorHalf(args.rows),
                                     c[2] - t[2] + FloorHalf(args.cols),
                                     args.mX, args.mY))]
            IN  /\ result.img[c].accum = WeightedSum(Taps(args.rows, args.cols), At)
                /\ result.img[c].weightSum = KernelSum(Taps(args.rows, args.cols))

C21_Witness ==
    /\ result.op = "convolved"
    /\ args.w = 2 /\ args.h = 1 /\ args.rows = 2 /\ args.cols = 1
    /\ args.kernel[<<0, 0>>] = 0 /\ args.kernel[<<1, 0>>] = 1
    /\ args.mX = "EDGE"
    /\ result.img[<<1, 0>>].accum[<<0, 0>>] = 1
    /\ result.img[<<1, 0>>].weightSum = 1

\* --------------------------------------------- demosaicAHD: the Lab table
\* vector<float> labLUT; labLUT.reserve(n): room for n elements, none of
\* them constructed; the vector stays empty.
Reserved(n) == [size |-> 0, capacity |-> n, filled |-> {}]

\* parallel_for(0, labLUT.size(), ...): labLUT[i] is stored for i < size().
FillLabLUT(lut) == [lut EXCEPT !.filled = 0..(lut.size - 1)]

\* An XYZ component is v / XyzDen.
XyzDen == 2
XyzValues == -1..MaxXyz

\* int(LUT.size()-1): size() is unsigned, 0 - 1 wraps and converts to -1.
LastIndex(lut) == IF lut.size = 0 THEN -1 ELSE lut.size - 1

\* clamp((int) (xyz(i) * LUT.size()), 0, int(LUT.size()-1)): the indices the
\* call can use.
LutIndex(lut, v) == ClampValues(Quot(v * lut.size, XyzDen), 0, LastIndex(lut))

InitLab ==
    /\ NewGLImage
    /\ m_asyncRetrieved = FALSE
    /\ args \in [fn : {"cameraToLab"}, xyz : [0..2 -> XyzValues]]
    /\ result = NoResult

\* "Precompute a table for the nonlinear part of the CIELab conversion"
DoFillLabLUT ==
    /\ result = NoResult
    /\ result' = [op |-> "labLUT", lut |-> FillLabLUT(Reserved(LutReserve)),
                  index |-> <<>>]
    /\ UNCHANGED <<ctl, args>>

\* cameraToLab: one table lookup per component.
DoCameraToLab ==
    /\ result.op = "labLUT"
    /\ \E index \in [0..2 -> UNION {LutIndex(result.lut, args.xyz[i]) : i \in 0..2}] :
          /\ \A i \in 0..2 : index[i] \in LutIndex(result.lut, args.xyz[i])
          /\ result' = [result EXCEPT !.op = "cameraToLab", !.index = index]
    /\ UNCHANGED <<ctl, args>>

NextLab == DoFillLabLUT \/ DoCameraToLab

SpecLab == InitLab /\ [][NextLab]_vars

\* C22: before any pixel is converted, the table covers the whole 16-bit
\* index range, and every index cameraToLab computes lies inside the table
\* and refers to an initialised entry.
C22_LabTableFilledAndIndexedInside ==
    /\ result.op \in {"labLUT", "cameraToLab"} =>
          /\ result.lut.size >= LutReserve
          /\ \A i \in 0..(LutReserve - 1) : i \in result.lut.filled
    /\ result.op = "cameraToLab" =>
          \A i \in 0..2 : /\ result.index[i] >= 0
                          /\ result.index[i] < result.lut.size
                          /\ result.index[i] \in result.lut.filled

\* ===================================================== makeHistograms (glimage.cpp)
\* Channel values are counted in units of 1 / NumBins: 0, 0.5 and a value
\* above 1. Sums and quotients are exact.
Values == {0, 128, 300}

\* colorspace.h LinearToSRGB, on the values that occur: 0 stays 0, 0.5 is
\* encoded as 0.735, and a value of at least 1 stays at least 1.
LinearToSRGB(v) == IF v <= 0 THEN 0 ELSE IF v < NumBins THEN 188 ELSE v

\* pow(2.f, exposure)
Gain(exposure) == 2 ^ exposure

\* clamp(int(floor(v * numBins)), 0, numBins - 1)
Bin(v) == IF v < 0 THEN 0 ELSE IF v > NumBins - 1 THEN NumBins - 1 ELSE v

RECURSIVE SumOver(_, _)
SumOver(img, cells) ==
    IF cells = {} THEN 0
    ELSE LET p == CHOOSE q \in cells : TRUE
         IN  img[p][0] + img[p][1] + img[p][2] + SumOver(img, cells \ {p})

AllValues(img) == {img[p][c] : p \in DOMAIN img, c \in Channels}
Smallest(S) == CHOOSE v \in S : \A u \in S : v <= u
Largest(S) == CHOOSE v \in S : \A u \in S : v >= u

\* ret->average /= img.width() * img.height()
Divided(sum, w, h) == [num |-> sum, den |-> w * h]

\* makeHistograms(img, exposure). A histogram lists, per bin and channel,
\* how many pixels fell in it; each adds d = 1 / (width * height).
MakeHistograms(img, w, h, exposure) ==
    LET gain == Gain(exposure)
        hist(enc(_)) ==
            {<<b, c, Cardinality({p \in DOMAIN img : Bin(enc(img[p][c] * gain)) = b})>> :
                b \in {Bin(enc(v * gain)) : v \in AllValues(img)}, c \in Channels}
        id(v) == v
    IN  [exposure |-> exposure,
         average |-> Divided(SumOver(img, DOMAIN img), w, h),
         minimum |-> IF DOMAIN img = {} THEN "+inf" ELSE Smallest(AllValues(img)),
         maximum |-> IF DOMAIN img = {} THEN "-inf" ELSE Largest(AllValues(img)),
         perPixel |-> w * h,
         linearHistogram |-> {t \in hist(id) : t[3] > 0},
         sRGBHistogram |-> {t \in hist(LinearToSRGB) : t[3] > 0}]

InitHist ==
    /\ NewGLImage
    /\ m_asyncRetrieved = FALSE
    /\ \E w \in 0..MaxPixels, h \in {0, 1} :
          args \in [fn : {"makeHistograms"}, w : {w}, h : {h}, exposure : Exposures,
                    img : [Cells(w, h) -> [Channels -> Values]]]
    /\ result = NoResult

DoMakeHistograms ==
    /\ result = NoResult
    /\ result' = [op |-> "makeHistograms"] @@
                 MakeHistograms(args.img, args.w, args.h, args.exposure)
    /\ UNCHANGED <<ctl, args>>

NextHist == DoMakeHistograms

SpecHist == InitHist /\ [][NextHist]_vars

\* C17: the statistics are those of the raw R, G, B values of all pixels,
\* whatever the exposure: minimum the smallest, maximum the largest, average
\* their arithmetic mean, hence minimum <= average <= maximum on a non-empty
\* raster; an all-black raster at exposure 0 has average 0 and weight 1.0
\* in bin 0 of each channel.
C17_StatisticsOfRawValues ==
    (result.op = "makeHistograms" /\ args.w * args.h > 0) =>
        LET n == 3 * args.w * args.h
            sum == SumOver(args.img, DOMAIN args.img)
            avg == result.average
        IN  /\ result.minimum = Smallest(AllValues(args.img))
            /\ result.maximum = Largest(AllValues(args.img))
            /\ avg.den > 0
            /\ avg.num * n = sum * avg.den
            /\ result.minimum * avg.den <= avg.num
            /\ avg.num <= result.maximum * avg.den
            /\ (AllValues(args.img) = {0} /\ args.exposure = 0) =>
                  /\ avg.num = 0
                  /\ result.linearHistogram =
                        {<<0, c, result.perPixel>> : c \in Channels}
                  /\ result.sRGBHistogram =
                        {<<0, c, result.perPixel>> : c \in Channels}

====
